---- MODULE Spec2Model ----
(***************************************************************************)
(* TAP-Consumer: the pyparsing grammar tap_parser and its parse action     *)
(* TAPSummary (src/tap_consumer/__init__.py).                              *)
(*                                                                         *)
(* The input text is modelled as a sequence of lines, each of one kind:    *)
(* a version line ("TAP version 14"), a plan line ("1..N"), a test-result  *)
(* line ("ok"/"not ok", optional number, optional TODO/SKIP directive), a  *)
(* bail line ("Bail out! reason") or a noise line.  A noise line holds no  *)
(* text a grammar element matches (no "ok", no "TAP version N").  The      *)
(* description, the leading comment lines and the YAML block of a test     *)
(* line are consumed by testLine and never read by TAPSummary; they are    *)
(* not represented.                                                        *)
(***************************************************************************)
EXTENDS Integers, Sequences, FiniteSets, TLC

\* ---- bounds of the model ----
MaxLines == 3   \* lines of an input text
MaxNum == 1     \* explicit test numbers range over 1..MaxNum
MaxPlan == 2    \* plan upper bounds range over 0..MaxPlan

\* ---- program constants ----
DefaultVersion == 12
NoNumber == -1  \* results.testNumber == "" : the line carries no test number

VersionNumbers == {14}
Reasons == {"db down", "disk full"}

\* ---- lines of the input ----
Blank ==
  [kind |-> "noise", version |-> 0, ubound |-> 0, passed |-> "",
   testNumber |-> NoNumber, directive |-> "", reason |-> ""]

VersionLine(v) == [Blank EXCEPT !.kind = "version", !.version = v]
PlanLine(n) == [Blank EXCEPT !.kind = "plan", !.ubound = n]
TestLine(s, n, d) ==
  [Blank EXCEPT !.kind = "test", !.passed = s, !.testNumber = n, !.directive = d]
BailLine(r) == [Blank EXCEPT !.kind = "bail", !.reason = r]
NoiseLine == Blank

Lines ==
  {VersionLine(v) : v \in VersionNumbers}
    \cup {PlanLine(n) : n \in 0..MaxPlan}
    \cup {TestLine(s, n, d) : s \in {"ok", "not ok"},
                              n \in {NoNumber} \cup (1..MaxNum),
                              d \in {"", "TODO", "SKIP"}}
    \cup {BailLine(r) : r \in Reasons}
    \cup {NoiseLine}

Inputs == UNION {[1..n -> Lines] : n \in 0..MaxLines}

\* Op(v) with v evaluated once: the binding of a local variable whose value
\* is costly to compute
Bind(v, Op(_)) == CHOOSE y \in {Op(x) : x \in {v}} : TRUE

\* ---- the grammar ----

\* SkipTo(expr) from line p: the first line at or after p where expr matches,
\* 0 when there is none (SkipTo raises ParseException).
SkipTo(lines, p, kind) ==
  LET js == {j \in p..Len(lines) : lines[j].kind = kind}
  IN IF js = {} THEN 0 ELSE CHOOSE j \in js : \A k \in js : j <= k

\* Optional(Group(Suppress(SkipTo(version)) + version)('version') + NL)
\*   + Optional(Group(plan)("plan") + NL)
\* matched at line p.  An unmatched Optional leaves its results name unset
\* (the empty sequence here) and consumes nothing.
versionAndPlan(lines, p) ==
  LET j == SkipTo(lines, p, "version")
      q == IF j = 0 THEN p ELSE j + 1
      hasPlan == q <= Len(lines) /\ lines[q].kind = "plan"
  IN [loc |-> IF hasPlan THEN q + 1 ELSE q,
      version |-> IF j = 0 THEN <<>> ELSE <<lines[j].version>>,
      plan |-> IF hasPlan THEN <<lines[q].ubound>> ELSE <<>>]

\* Group(OneOrMore((testLine | Suppress(SkipTo(testLine)) + testLine | bailLine) + NL))
\* matched at line p; acc holds the entries matched so far.  MatchFirst
\* takes the first alternative that matches.  No entry at all is a
\* ParseException (tests = <<>>).
RECURSIVE tests(_, _, _)
tests(lines, p, acc) ==
  LET q == SkipTo(lines, p, "test")
  IN IF p <= Len(lines) /\ lines[p].kind = "test"
       THEN tests(lines, p + 1, Append(acc, lines[p]))
     ELSE IF q # 0
       THEN tests(lines, q + 1, Append(acc, lines[q]))
     ELSE IF p <= Len(lines) /\ lines[p].kind = "bail"
       THEN tests(lines, p + 1, Append(acc, lines[p]))
     ELSE [loc |-> p, tests |-> acc]

\* tap_parser = <versionAndPlan> & <tests>, an Each of two expressions.
\* Each.parseImpl tries the required expressions in order and then those
\* that may match empty: versionAndPlan, tests, versionAndPlan again.  When
\* tests fails in the first pass it is retried once after the second
\* versionAndPlan.  Results of a later match override those of an earlier
\* one under the same name.
tap_parser(lines) ==
  LET h1 == versionAndPlan(lines, 1)
  IN Bind(tests(lines, h1.loc, <<>>), LAMBDA g1 :
       LET h2 == versionAndPlan(lines, IF Len(g1.tests) > 0 THEN g1.loc
                                       ELSE h1.loc)
           g == IF Len(g1.tests) > 0 THEN g1 ELSE tests(lines, h2.loc, <<>>)
       IN [ok |-> Len(g.tests) > 0,
           version |-> IF Len(h2.version) > 0 THEN h2.version ELSE h1.version,
           plan |-> IF Len(h2.plan) > 0 THEN h2.plan ELSE h1.plan,
           tests |-> g.tests])

NoResults == [version |-> <<>>, plan |-> <<>>, tests |-> <<>>]

\* ---- TAPTest ----

\* TAPTest.__init__.  Python compares TAPTest objects by identity; id is
\* the identity of the object: the index of the entry it is built from.
TAPTest(res, ident, testnum) ==
  [id |-> ident,
   num |-> testnum,
   passed |-> res.passed = "ok",
   skipped |-> res.directive = "SKIP",
   todo |-> res.directive = "TODO"]

\* TAPTest.bailedTest: a test built from an empty parse, then num and
\* skipped are set.  n is the number of entries: placeholders are objects
\* distinct from every test built from an entry.
bailedTest(num, n) ==
  [TAPTest(Blank, n + 1 + num, num) EXCEPT !.skipped = TRUE]

\* ---- TAPSummary.__init__ ----

\* the fields set before the loop
NewSummary(results) ==
  [passedTests |-> <<>>, failedTests |-> <<>>, skippedTests |-> <<>>,
   todoTests |-> <<>>, bonusTests |-> <<>>, bail |-> FALSE,
   bailReason |-> <<>>,
   version |-> IF Len(results.version) > 0 THEN results.version[1]
               ELSE DefaultVersion,
   passedSuite |-> FALSE]

\* expected = list(range(1, ubound + 1)) or list(range(1, len(tests) + 1))
Expected(results) ==
  IF Len(results.plan) > 0
    THEN [k \in 1..results.plan[1] |-> k]
    ELSE [k \in 1..Len(results.tests) |-> k]

\* expected[i:]
Slice(s, i) == [k \in 1..(IF Len(s) > i THEN Len(s) - i ELSE 0) |-> s[k + i]]

\* BailOut with the slice taken one entry too late: expected[i + 1:]
BailOut_OffByOne(self0, results, expected0, i0) ==
  LET rest == Slice(expected0, i0 + 1)
  IN [self0 EXCEPT
        !.bail = TRUE,
        !.skippedTests = @ \o
           [k \in 1..Len(rest) |-> bailedTest(rest[k], Len(results.tests))],
        !.bailReason = <<results.tests[i0 + 1].reason>>]

\* the loop body for a bail entry at 0-based index i
BailOut(self0, results, expected0, i0) ==
  LET rest == Slice(expected0, i0)
  IN [self0 EXCEPT
        !.bail = TRUE,
        !.skippedTests = @ \o
           [k \in 1..Len(rest) |-> bailedTest(rest[k], Len(results.tests))],
        !.bailReason = <<results.tests[i0 + 1].reason>>]

\* TestNum without "testnum = int(res.testNumber)": always positional
TestNum_Positional(res, i0) == i0 + 1

\* testnum of the entry at 0-based index i
TestNum(res, i0) ==
  IF res.testNumber # NoNumber THEN res.testNumber ELSE i0 + 1

\* the "out of sequence" report of the entry at 0-based index i
OutOfSequence(res, i0) ==
  IF res.testNumber # NoNumber /\ i0 + 1 # res.testNumber
    THEN <<res.testNumber>> ELSE <<>>

\* ClassifyTest where a SKIP-tagged test goes to skippedTests only
ClassifyTest_SkipNotCounted(self0, results, expected0, i0) ==
  LET res == results.tests[i0 + 1]
      test == TAPTest(res, i0 + 1, TestNum(res, i0))
  IN [self0 EXCEPT
        !.passedTests = IF test.passed /\ ~test.skipped THEN Append(@, test) ELSE @,
        !.failedTests = IF test.passed \/ test.skipped THEN @ ELSE Append(@, test),
        !.skippedTests = IF test.skipped THEN Append(@, test) ELSE @,
        !.todoTests = IF test.todo THEN Append(@, test) ELSE @,
        !.bonusTests = IF test.todo /\ test.passed THEN Append(@, test) ELSE @]

\* ClassifyTest with "if test.todo:" in place of "if test.todo and test.passed:"
ClassifyTest_BonusAnyTodo(self0, results, expected0, i0) ==
  LET res == results.tests[i0 + 1]
      test == TAPTest(res, i0 + 1, TestNum(res, i0))
  IN [self0 EXCEPT
        !.passedTests = IF test.passed THEN Append(@, test) ELSE @,
        !.failedTests = IF test.passed THEN @ ELSE Append(@, test),
        !.skippedTests = IF test.skipped THEN Append(@, test) ELSE @,
        !.todoTests = IF test.todo THEN Append(@, test) ELSE @,
        !.bonusTests = IF test.todo THEN Append(@, test) ELSE @]

\* the loop body for a test entry at 0-based index i
ClassifyTest(self0, results, expected0, i0) ==
  LET res == results.tests[i0 + 1]
      test == TAPTest(res, i0 + 1, TestNum(res, i0))
  IN [self0 EXCEPT
        !.passedTests = IF test.passed THEN Append(@, test) ELSE @,
        !.failedTests = IF test.passed THEN @ ELSE Append(@, test),
        !.skippedTests = IF test.skipped THEN Append(@, test) ELSE @,
        !.todoTests = IF test.todo THEN Append(@, test) ELSE @,
        !.bonusTests = IF test.todo /\ test.passed THEN Append(@, test) ELSE @]

Range(s) == {s[k] : k \in 1..Len(s)}

\* PassedSuite without "not self.bail and"
PassedSuite_IgnoresBail(self0, results) ==
  [self0 EXCEPT
     !.passedSuite = Range(self0.failedTests) \ Range(self0.todoTests) = {}]

\* PassedSuite comparing test numbers in place of test objects
PassedSuite_ByNumber(self0, results) ==
  [self0 EXCEPT
     !.passedSuite = ~self0.bail
        /\ {t.num : t \in Range(self0.failedTests)}
              \ {t.num : t \in Range(self0.todoTests)} = {}]

\* PassedSuite that also wants as many entries as the plan declares
PassedSuite_PlanStrict(self0, results) ==
  [self0 EXCEPT
     !.passedSuite = ~self0.bail
        /\ Range(self0.failedTests) \ Range(self0.todoTests) = {}
        /\ (Len(results.plan) > 0 => results.plan[1] = Len(results.tests))]

\* passedSuite: not bail and set(failedTests) - set(todoTests) == set()
PassedSuite(self0, results) ==
  [self0 EXCEPT
     !.passedSuite = ~self0.bail
        /\ Range(self0.failedTests) \ Range(self0.todoTests) = {}]

\* for i, res in enumerate(results.tests): from 0-based index i on; out0 is
\* what has been printed so far
RECURSIVE Loop(_, _, _, _, _)
Loop(self0, out0, results, expected0, i0) ==
  IF i0 >= Len(results.tests)
    THEN [self |-> self0, out |-> out0]
  ELSE IF results.tests[i0 + 1].kind = "bail"
    THEN [self |-> BailOut(self0, results, expected0, i0), out |-> out0]
  ELSE Loop(ClassifyTest(self0, results, expected0, i0),
            out0 \o OutOfSequence(results.tests[i0 + 1], i0),
            results, expected0, i0 + 1)

\* TAPSummary(results): the summary object and the reports printed
TAPSummary(results) ==
  Bind(Loop(NewSummary(results), <<>>, results, Expected(results), 0),
       LAMBDA l : Bind(l.self, LAMBDA s :
          [self |-> PassedSuite(s, results), out |-> l.out]))

\* tap_parser.parse_string(text): the grammar, then the parse action
\* TAPSummary (tap_parser.setParseAction(TAPSummary))
parse_string(lines) ==
  Bind(tap_parser(lines), LAMBDA r :
    IF r.ok
      THEN Bind([version |-> r.version, plan |-> r.plan, tests |-> r.tests],
             LAMBDA doc : Bind(TAPSummary(doc), LAMBDA t :
               [ok |-> TRUE, results |-> doc, self |-> t.self, out |-> t.out]))
      ELSE [ok |-> FALSE, results |-> NoResults,
            self |-> NewSummary(NoResults), out |-> <<>>])

\* ---- the program ----
VARIABLES input, pc, results, self, out

vars == <<input, pc, results, self, out>>

Init ==
  /\ input \in Inputs
  /\ pc = "parse"
  /\ results = NoResults
  /\ self = NewSummary(NoResults)
  /\ out = <<>>

\* tap_parser.parse_string(text): returns a summary or raises ParseException
ParseString ==
  /\ pc = "parse"
  /\ \E r \in {parse_string(input)} :
        /\ pc' = IF r.ok THEN "done" ELSE "error"
        /\ results' = r.results
        /\ self' = r.self
        /\ out' = r.out
  /\ UNCHANGED input

Next == ParseString

Spec == Init /\ [][Next]_vars

\* ---- properties ----

Nums(list) == [k \in 1..Len(list) |-> list[k].num]
Ids(list) == [k \in 1..Len(list) |-> list[k].id]

\* index of the first entry of kind k in a sequence of entries, 0 if none
FirstOfKind(entries, k) ==
  LET js == {j \in 1..Len(entries) : entries[j].kind = k}
  IN IF js = {} THEN 0 ELSE CHOOSE j \in js : \A m \in js : j <= m

\* 1-based index of the first bail entry of the document, 0 if none
FirstBail == FirstOfKind(results.tests, "bail")

\* indices of the entries that precede every bail entry
BeforeBail ==
  IF FirstBail = 0 THEN 1..Len(results.tests) ELSE 1..(FirstBail - 1)

\* the indices in S, ascending, as a sequence
RECURSIVE Ascending(_)
Ascending(S) ==
  IF S = {} THEN <<>>
  ELSE LET m == CHOOSE x \in S : \A y \in S : x <= y
       IN <<m>> \o Ascending(S \ {m})

Increasing(seq) == \A j, k \in 1..Len(seq) : j < k => seq[j] < seq[k]

\* the declared upper bound, or the number of entries
UpperBound ==
  IF Len(results.plan) > 0 THEN results.plan[1] ELSE Len(results.tests)

\* C1: the suite verdict is true iff the bail flag is false and every test
\* of the failed list is in the todo list; with no bail entry and no
\* TODO-tagged failure it equals "the failed list is empty"; a failed test
\* tagged SKIP makes it false.
C1_Verdict ==
  pc = "done" =>
    /\ self.passedSuite =
         (~self.bail /\ \A t \in Range(self.failedTests) :
                           t \in Range(self.todoTests))
    /\ (/\ FirstBail = 0
        /\ \A k \in 1..Len(results.tests) :
             ~(results.tests[k].passed = "not ok"
               /\ results.tests[k].directive = "TODO"))
         => self.passedSuite = (Len(self.failedTests) = 0)
    /\ (\E k \in BeforeBail :
          /\ results.tests[k].passed = "not ok"
          /\ results.tests[k].directive = "SKIP")
         => ~self.passedSuite

\* a suite that passes although a test failed: the failure is TODO-tagged
C1_Witness ==
  /\ pc = "done"
  /\ self.passedSuite
  /\ Len(self.failedTests) > 0
  /\ Len(self.passedTests) > 0

\* C2: with the first bail entry at index i (1-based), the skipped list is
\* the SKIP-tagged tests among entries 1..i-1, in order, followed by one
\* placeholder for each number i..U ascending, U the plan's upper bound or
\* else the number of entries; placeholders are in no other list.
C2_BailPlaceholders ==
  (pc = "done" /\ FirstBail # 0) =>
    LET genuine == Ascending({k \in BeforeBail :
                                results.tests[k].directive = "SKIP"})
        holders == [k \in 1..(IF UpperBound >= FirstBail
                              THEN UpperBound - FirstBail + 1 ELSE 0)
                      |-> FirstBail + k - 1]
        n == Len(results.tests)
    IN /\ Len(self.skippedTests) = Len(genuine) + Len(holders)
       /\ \A k \in 1..Len(genuine) : self.skippedTests[k].id = genuine[k]
       /\ \A k \in 1..Len(holders) :
            /\ self.skippedTests[Len(genuine) + k].num = holders[k]
            /\ self.skippedTests[Len(genuine) + k].id > n
            /\ self.skippedTests[Len(genuine) + k].skipped
       /\ \A t \in Range(self.passedTests) \cup Range(self.failedTests)
                     \cup Range(self.todoTests) \cup Range(self.bonusTests) :
            t.id <= n

\* a bail after a genuinely skipped test, under a plan that leaves numbers
\* to synthesize
C2_Witness ==
  /\ pc = "done"
  /\ FirstBail > 1
  /\ Len(results.plan) > 0
  /\ \E k \in BeforeBail : results.tests[k].directive = "SKIP"
  /\ \E k \in 1..Len(self.skippedTests) :
       self.skippedTests[k].id > Len(results.tests)

\* C4: every test entry before the first bail entry is exactly once in
\* exactly one of passed and failed, in passed iff its status is "ok";
\* passed and failed are disjoint, hold nothing else, keep encounter order,
\* and without a bail entry their lengths add up to the number of entries.
C4_PassedFailedPartition ==
  pc = "done" =>
    /\ \A k \in BeforeBail :
         LET inP == {j \in 1..Len(self.passedTests) : self.passedTests[j].id = k}
             inF == {j \in 1..Len(self.failedTests) : self.failedTests[j].id = k}
         IN /\ Cardinality(inP) + Cardinality(inF) = 1
            /\ (Cardinality(inP) = 1) = (results.tests[k].passed = "ok")
    /\ Range(self.passedTests) \cap Range(self.failedTests) = {}
    /\ \A t \in Range(self.passedTests) \cup Range(self.failedTests) :
         t.id \in BeforeBail
    /\ Increasing(Ids(self.passedTests))
    /\ Increasing(Ids(self.failedTests))
    /\ FirstBail = 0 =>
         Len(self.passedTests) + Len(self.failedTests) = Len(results.tests)

\* a passed and a failed test, one of them SKIP-tagged
C4_Witness ==
  /\ pc = "done"
  /\ Len(self.passedTests) > 0
  /\ Len(self.failedTests) > 0
  /\ \E t \in Range(self.passedTests) \cup Range(self.failedTests) : t.skipped

\* C5: a TODO-tagged test that passes is in todo, bonus and passed; one that
\* fails is in todo and failed and not in bonus; bonus is exactly the tests
\* in both todo and passed; a test without TODO is in neither todo nor bonus.
C5_TodoBonus ==
  pc = "done" =>
    /\ \A t \in Range(self.passedTests) \cup Range(self.failedTests) :
         LET res == results.tests[t.id]
         IN /\ (res.directive = "TODO" /\ res.passed = "ok") =>
                 /\ t \in Range(self.todoTests)
                 /\ t \in Range(self.bonusTests)
                 /\ t \in Range(self.passedTests)
            /\ (res.directive = "TODO" /\ res.passed = "not ok") =>
                 /\ t \in Range(self.todoTests)
                 /\ t \in Range(self.failedTests)
                 /\ t \notin Range(self.bonusTests)
            /\ res.directive # "TODO" =>
                 /\ t \notin Range(self.todoTests)
                 /\ t \notin Range(self.bonusTests)
    /\ Range(self.bonusTests)
         = Range(self.todoTests) \cap Range(self.passedTests)
    /\ Len(self.bonusTests) = Cardinality(Range(self.bonusTests))
    /\ Range(self.todoTests)
         \subseteq Range(self.passedTests) \cup Range(self.failedTests)

\* a bonus test and an expected failure in one run
C5_Witness ==
  /\ pc = "done"
  /\ Len(self.bonusTests) > 0
  /\ \E t \in Range(self.todoTests) : t \in Range(self.failedTests)

\* the document with every explicit test number removed
WithoutNumbers(doc) ==
  [doc EXCEPT !.tests = [k \in 1..Len(doc.tests) |->
                           [doc.tests[k] EXCEPT !.testNumber = NoNumber]]]

\* which entries are in which list, and the flags
Classification(s) ==
  [passed |-> Ids(s.passedTests), failed |-> Ids(s.failedTests),
   skipped |-> Ids(s.skippedTests), todo |-> Ids(s.todoTests),
   bonus |-> Ids(s.bonusTests), bail |-> s.bail, verdict |-> s.passedSuite]

\* C8: the number of the test of entry k (1-based) is the entry's explicit
\* number when it has one and otherwise k; an explicit number that differs
\* from k is reported and nothing else: every entry before the first bail
\* is still classified, and as it is without the explicit numbers.
C8_SequenceNumbers ==
  pc = "done" =>
    /\ \A t \in Range(self.passedTests) \cup Range(self.failedTests) :
         t.num = IF results.tests[t.id].testNumber # NoNumber
                 THEN results.tests[t.id].testNumber ELSE t.id
    /\ Len(self.passedTests) + Len(self.failedTests) = Cardinality(BeforeBail)
    /\ LET anomalies == Ascending({j \in BeforeBail :
                             /\ results.tests[j].testNumber # NoNumber
                             /\ results.tests[j].testNumber # j})
       IN /\ Len(out) = Len(anomalies)
          /\ \A k \in 1..Len(anomalies) :
               out[k] = results.tests[anomalies[k]].testNumber
    /\ (\E k \in BeforeBail : results.tests[k].testNumber # NoNumber) =>
         Classification(TAPSummary(WithoutNumbers(results)).self)
           = Classification(self)

\* an out-of-sequence number is reported and a later entry is classified
C8_Witness ==
  /\ pc = "done"
  /\ Len(out) > 0
  /\ \E j, k \in BeforeBail :
       /\ j < k
       /\ results.tests[j].testNumber # NoNumber
       /\ results.tests[j].testNumber # j
       /\ \E t \in Range(self.failedTests) : t.id = k

\* C9: without a bail entry the summary does not depend on the plan: the
\* lists, test numbers, bail flag, verdict and reports are those of the same
\* entries under no plan (so any two plans give the same summary).
C9_PlanOnlyTruncates ==
  (pc = "done" /\ FirstBail = 0 /\ Len(results.plan) > 0) =>
    TAPSummary([results EXCEPT !.plan = <<>>]) = [self |-> self, out |-> out]

\* a passing run whose plan declares another number of tests than it has
C9_Witness ==
  /\ pc = "done"
  /\ FirstBail = 0
  /\ Len(results.plan) > 0
  /\ results.plan[1] # Len(results.tests)
  /\ self.passedSuite

\* C10: a failed test without TODO whose number is also the number of a
\* TODO-tagged test makes the verdict false.
C10_VerdictByEntry ==
  pc = "done" =>
    \A t \in Range(self.failedTests), u \in Range(self.todoTests) :
      (t.id # u.id /\ t.num = u.num /\ ~t.todo) => ~self.passedSuite

\* such a run, without a bail entry and with no other untagged failure
C10_Witness ==
  /\ pc = "done"
  /\ ~self.bail
  /\ \E t \in Range(self.failedTests), u \in Range(self.todoTests) :
       /\ t.id # u.id
       /\ t.num = u.num
       /\ ~t.todo
       /\ \A w \in Range(self.failedTests) : w.id # t.id => w.todo

\* ---- properties of the grammar ----

\* what a caller sees of tap_parser.parse_string(text)
View(r) ==
  [ok |-> r.ok, version |-> r.self.version, expected |-> Expected(r.results),
   passed |-> Nums(r.self.passedTests), failed |-> Nums(r.self.failedTests),
   skipped |-> Nums(r.self.skippedTests), todo |-> Nums(r.self.todoTests),
   bonus |-> Nums(r.self.bonusTests), bail |-> r.self.bail,
   bailReason |-> r.self.bailReason, verdict |-> r.self.passedSuite]

\* the run of the program on its input, once it is over
Current ==
  [ok |-> pc = "done", results |-> results, self |-> self, out |-> out]

IsResult(l) == l.kind \in {"test", "bail"}

\* lines with l inserted before line k
InsertAt(lines, k, l) ==
  [j \in 1..(Len(lines) + 1) |->
     IF j < k THEN lines[j] ELSE IF j = k THEN l ELSE lines[j - 1]]

\* lines with line k removed
RemoveAt(lines, k) ==
  [j \in 1..(Len(lines) - 1) |-> IF j < k THEN lines[j] ELSE lines[j + 1]]

\* number of version lines (0 or 1) and plan lines (0 or 1) that open lines
HeadVersion(lines) ==
  IF Len(lines) >= 1 /\ lines[1].kind = "version" THEN 1 ELSE 0
HeadPlan(lines) ==
  IF Len(lines) > HeadVersion(lines)
       /\ lines[HeadVersion(lines) + 1].kind = "plan" THEN 1 ELSE 0

\* an optional version line, an optional plan line, one or more result lines
Clean(lines) ==
  LET h == HeadVersion(lines) + HeadPlan(lines)
  IN /\ Len(lines) > h
     /\ \A k \in (h + 1)..Len(lines) : IsResult(lines[k])

\* where a noise line goes: before the version line, between the version
\* line and the plan line, between two result lines
NoisePositions(lines) ==
  LET h == HeadVersion(lines) + HeadPlan(lines)
  IN (IF HeadVersion(lines) = 1 THEN {1} ELSE {})
       \cup (IF HeadVersion(lines) = 1 /\ HeadPlan(lines) = 1 THEN {2} ELSE {})
       \cup (h + 2)..Len(lines)

\* C3: when a bail line follows at least one test-result line, the summary
\* has bail = true and the reason of that line, and no test-result line
\* after the bail line is classified.
C3_BailIsTerminal ==
  pc \in {"done", "error"} =>
    \A b \in 1..Len(input) :
      (/\ input[b].kind = "bail"
       /\ \E t \in 1..(b - 1) : input[t].kind = "test"
       /\ \A c \in 1..(b - 1) :
            input[c].kind = "bail" => \A t \in 1..(c - 1) : input[t].kind # "test")
        => /\ pc = "done"
           /\ self.bail
           /\ self.bailReason = <<input[b].reason>>
           /\ Len(self.passedTests) + Len(self.failedTests)
                <= Cardinality({t \in 1..(b - 1) : input[t].kind = "test"})

\* C6: a noise line inserted before the version line, between the version
\* line and the plan line or between result lines of a clean input changes
\* nothing of the summary.
C6_NoiseDiscarded ==
  (pc = "done" /\ Clean(input)) =>
    \A k \in NoisePositions(input) :
      View(parse_string(InsertAt(input, k, NoiseLine))) = View(Current)

\* what the plan contributes: its upper bound, the expected range, the
\* skipped list with its placeholders
PlanView(r) ==
  [ok |-> r.ok, plan |-> r.results.plan, expected |-> Expected(r.results),
   skipped |-> Nums(r.self.skippedTests)]

\* C7: the plan line moved from before the result lines to after any of
\* them, and the version line and the plan line exchanged, give the same
\* upper bound, expected range and placeholders.
C7_PlanAnywhere ==
  pc = "done" =>
    /\ (/\ Len(input) >= 2
        /\ input[1].kind = "plan"
        /\ \A k \in 2..Len(input) : IsResult(input[k]))
         => \A k \in 2..Len(input) :
              PlanView(parse_string(InsertAt(RemoveAt(input, 1), k, input[1])))
                = PlanView(Current)
    /\ (/\ Len(input) >= 3
        /\ input[1].kind = "version"
        /\ input[2].kind = "plan"
        /\ \A k \in 3..Len(input) : IsResult(input[k]))
         => PlanView(parse_string(InsertAt(RemoveAt(input, 1), 2, input[1])))
              = PlanView(Current)

====
